---- MODULE Spec2Model ----
(***************************************************************************)
(* Custom-script dispatch of swift-docc-render.                            *)
(*                                                                         *)
(*   src/src/utils/custom-scripts.js   the manifest loader and dispatcher  *)
(*   src/unnamed/part_000              the root component, whose $route    *)
(*                                     watcher is the dispatcher's caller  *)
(*                                                                         *)
(* A JSON object is a function whose DOMAIN is the set of its own          *)
(* properties, so has(o, p) is p \in DOMAIN o.  A JavaScript string        *)
(* that the code slices or concatenates is a sequence of one-character     *)
(* strings.                                                                *)
(***************************************************************************)
EXTENDS Integers, Sequences, FiniteSets, TLC

VARIABLES
    customScripts,                   \* the array custom-scripts.json holds when well formed
    initialRoutingEventHasOccurred,  \* data() of the root component
    calls,                           \* one record per run of the $route watcher
    head,                            \* document.head: the script elements appended
    imports,                         \* the dynamic imports started
    rejections,                      \* the rejected promises nobody awaits nor catches
    lifecycle,                       \* the root component: initialized, created, destroyed
    enableThemeSettings,             \* the prop of the root component
    createdAt,                       \* where the async created() stands
    fromKeyboard,                    \* data() of the root component
    listeners,                       \* the component's listeners registered on window
    CSSCustomProperties,             \* the value of the computed property
    rootStyle                        \* document.body.style: the custom properties set

\* the root component apart from its $route watcher
component == <<lifecycle, enableThemeSettings, createdAt, fromKeyboard, listeners,
               CSSCustomProperties, rootStyle>>

vars == <<customScripts, initialRoutingEventHasOccurred, calls, head, imports, rejections,
          component>>

----------------------------------------------------------------------------
(* Bounds of the model. *)

\* the longest manifest
MaxLen == 2
\* the number of routing events of a behaviour
MaxEvents == 3
\* the longest script name
MaxNameLen == 4

----------------------------------------------------------------------------
(* JSON objects and strings. *)

\* the object with no property
EmptyObject == [p \in {} |-> p]

\* the objects that lack property k or hold one of vals under it
Optional(k, vals) == {EmptyObject} \cup {[p \in {k} |-> v] : v \in vals}

\* docc-render/utils/object-properties: Object.prototype.hasOwnProperty
has(object, property) == property \in DOMAIN object

\* docc-render/utils/object-properties: the message to throw, or NoError
NoError == "none"
mustNotHave(object, property, errorMessage) ==
    IF has(object, property) THEN errorMessage ELSE NoError

\* the assignment object[property] = value
SetProperty(object, property, value) == (property :> value) @@ object

\* docc-render/utils/object-properties: destination with source's property, when present
copyPropertyIfPresent(property, source, destination) ==
    IF has(source, property)
    THEN SetProperty(destination, property, source[property])
    ELSE destination

\* docc-render/utils/object-properties: copyPropertyIfPresent for defer and integrity
copyPresentProperties(source, destination) ==
    copyPropertyIfPresent("integrity", source,
        copyPropertyIfPresent("defer", source, destination))

\* String.prototype.slice(-n): the last n characters, the whole string when shorter
SliceLast(s, n) == IF Len(s) <= n THEN s ELSE SubSeq(s, Len(s) - n + 1, Len(s))

DotJs == <<".", "j", "s">>
CustomScriptsSegment ==
    <<"c", "u", "s", "t", "o", "m", "-", "s", "c", "r", "i", "p", "t", "s">>

\* Array.prototype.join('/')
RECURSIVE JoinPath(_)
JoinPath(parts) ==
    IF Len(parts) = 0 THEN <<>>
    ELSE IF Len(parts) = 1 THEN parts[1]
    ELSE parts[1] \o <<"/">> \o JoinPath(Tail(parts))

\* the origin and base path the application is served under
BaseUrl == <<"~">>

\* docc-render/utils/url-helper: the base, then the path segments joined with '/'
resolveAbsoluteUrl(parts) == BaseUrl \o JoinPath(parts)

----------------------------------------------------------------------------
(* custom-scripts.js: the pure part. *)

Run == [onLoad |-> "on-load",
        onLoadAndNavigate |-> "on-load-and-navigate",
        onNavigate |-> "on-navigate"]

shouldRunOnPageLoad(customScript) ==
    \/ ~has(customScript, "run")
    \/ customScript.run = Run.onLoad
    \/ customScript.run = Run.onLoadAndNavigate

\* shouldRunOnNavigate taking an absent run for a match, as shouldRunOnPageLoad does
shouldRunOnNavigateOrAbsent(customScript) ==
    \/ ~has(customScript, "run")
    \/ customScript.run = Run.onNavigate
    \/ customScript.run = Run.onLoadAndNavigate

shouldRunOnNavigate(customScript) ==
    /\ has(customScript, "run")
    /\ (customScript.run = Run.onNavigate \/ customScript.run = Run.onLoadAndNavigate)

\* urlGivenScriptName appending the extension whatever the name ends in
urlGivenScriptNameAlwaysAppends(customScriptName) ==
    resolveAbsoluteUrl(<<<<>>, CustomScriptsSegment, customScriptName \o DotJs>>)

urlGivenScriptName(customScriptName) ==
    LET scriptNameWithExtension ==
            IF SliceLast(customScriptName, 3) # DotJs
            THEN customScriptName \o DotJs
            ELSE customScriptName
    IN  resolveAbsoluteUrl(<<<<>>, CustomScriptsSegment, scriptNameWithExtension>>)

BothError == "Custom script cannot have both url and name."
NeitherError == "Custom script has neither a url nor a name property."
FormatError == "Content of custom-scripts.json should be an array."

\* AsyncOrFalse leaving the element at its default, async, when the entry has no async
AsyncOrDefault(customScript) ==
    IF has(customScript, "async") THEN customScript.async ELSE TRUE

\* customScript.async || false
AsyncOrFalse(customScript) ==
    IF has(customScript, "async") /\ customScript.async = TRUE THEN TRUE ELSE FALSE

\* addScriptElement: [error, element]; the element is appended when error is NoError.
\* document.createElement('script') is the object with no property assigned.
addScriptElement(customScript) ==
    LET scriptElement == copyPropertyIfPresent("type", customScript, EmptyObject)
    IN  IF has(customScript, "url")
        THEN IF mustNotHave(customScript, "name", BothError) # NoError
             THEN [error |-> BothError, element |-> scriptElement]
             ELSE LET withSrc == SetProperty(scriptElement, "src", customScript.url)
                      withAsync == SetProperty(withSrc, "async", AsyncOrFalse(customScript))
                      copied == copyPresentProperties(customScript, withAsync)
                  IN  [error |-> NoError,
                       element |-> IF has(customScript, "integrity")
                                   THEN SetProperty(copied, "crossOrigin", "anonymous")
                                   ELSE copied]
        ELSE IF has(customScript, "name")
        THEN LET withSrc == SetProperty(scriptElement, "src",
                                        urlGivenScriptName(customScript.name))
                 withAsync == SetProperty(withSrc, "async", AsyncOrFalse(customScript))
             IN  [error |-> NoError,
                  element |-> copyPresentProperties(customScript, withAsync)]
        ELSE [error |-> NeitherError, element |-> scriptElement]

\* importScript up to its first await: [error, src]; import(src) is started when error
\* is NoError, and otherwise the promise importScript returns is rejected with error.
importScript(customScript) ==
    IF has(customScript, "url")
    THEN IF mustNotHave(customScript, "name", BothError) # NoError
         THEN [error |-> BothError, src |-> <<>>]
         ELSE [error |-> NoError, src |-> customScript.url]
    ELSE IF has(customScript, "name")
    THEN [error |-> NoError, src |-> urlGivenScriptName(customScript.name)]
    ELSE [error |-> NeitherError, src |-> <<>>]

\* the predicate runCustomPageLoadScripts / runCustomNavigateScripts hands to
\* runCustomScripts
Load == "load"
Navigate == "navigate"
\* predicate testing shouldRunOnPageLoad for both dispatches
predicateOfPageLoad(kind, customScript) == shouldRunOnPageLoad(customScript)

predicate(kind, customScript) ==
    IF kind = Load THEN shouldRunOnPageLoad(customScript)
    ELSE shouldRunOnNavigate(customScript)

\* customScripts.filter(predicate), as the indices of the entries kept, in array order
RECURSIVE FilterFrom(_, _, _)
FilterFrom(kind, scripts, i) ==
    IF i > Len(scripts) THEN <<>>
    ELSE IF predicate(kind, scripts[i]) THEN <<i>> \o FilterFrom(kind, scripts, i + 1)
    ELSE FilterFrom(kind, scripts, i + 1)

\* filter keeping every entry, whatever its run
filterNothing(kind, scripts) == [i \in 1..Len(scripts) |-> i]

filter(kind, scripts) == FilterFrom(kind, scripts, 1)

\* forEachAddScriptElement removing, on a throw, what the call appended before it
RECURSIVE forEachAddScriptElementRollback(_, _, _, _)
forEachAddScriptElementRollback(scripts, indices, c, hd) ==
    IF indices = <<>> THEN [head |-> hd, error |-> NoError]
    ELSE LET r == addScriptElement(scripts[Head(indices)])
         IN  IF r.error # NoError
             THEN [head |-> SelectSeq(hd, LAMBDA el : el.call # c), error |-> r.error]
             ELSE forEachAddScriptElementRollback(scripts, Tail(indices), c,
                      Append(hd, [element |-> r.element, call |-> c,
                                  index |-> Head(indices)]))

\* .forEach(addScriptElement) of call c: a throw ends the loop and leaves what was
\* appended before it.  [head, error]
RECURSIVE forEachAddScriptElement(_, _, _, _)
forEachAddScriptElement(scripts, indices, c, hd) ==
    IF indices = <<>> THEN [head |-> hd, error |-> NoError]
    ELSE LET r == addScriptElement(scripts[Head(indices)])
         IN  IF r.error # NoError
             THEN [head |-> hd, error |-> r.error]
             ELSE forEachAddScriptElement(scripts, Tail(indices), c,
                      Append(hd, [element |-> r.element, call |-> c,
                                  index |-> Head(indices)]))

\* .forEach(importScript) of call c: forEach drops the promise each importScript call
\* returns, so a rejected one is caught by nobody and the loop goes on.
\* [imports, rejections]
RECURSIVE forEachImportScript(_, _, _, _, _)
forEachImportScript(scripts, indices, c, imps, rejs) ==
    IF indices = <<>> THEN [imports |-> imps, rejections |-> rejs]
    ELSE LET r == importScript(scripts[Head(indices)])
         IN  IF r.error # NoError
             THEN forEachImportScript(scripts, Tail(indices), c, imps,
                      rejs \cup {[call |-> c, index |-> Head(indices), error |-> r.error]})
             ELSE forEachImportScript(scripts, Tail(indices), c,
                      imps \cup {[src |-> r.src, call |-> c, index |-> Head(indices),
                                     settled |-> FALSE]},
                      rejs)

----------------------------------------------------------------------------
(* The inputs: what custom-scripts.json may hold. *)

RunValues == {Run.onLoad, Run.onLoadAndNavigate, Run.onNavigate}
Urls == {<<"u">>}
Names == {<<"a">>}

\* the entries that differ in what the dispatch reads: run, url and name
Entries ==
    {r @@ u @@ n :
        r \in Optional("run", RunValues), u \in Optional("url", Urls),
        n \in Optional("name", Names)}

\* the properties addScriptElement copies to the element
Attributes ==
    {t @@ a @@ d @@ i :
        t \in Optional("type", {"module"}), a \in Optional("async", BOOLEAN),
        d \in Optional("defer", {TRUE}), i \in Optional("integrity", {"sha"})}

\* a run that is none of the values of Run
OtherRun == "on-demand"

\* the entries with every combination of source, trigger and attributes, the
\* trigger being absent, a value of Run or another string
AttributedEntries ==
    {r @@ u @@ n @@ a :
        r \in Optional("run", RunValues \cup {OtherRun}), u \in Optional("url", Urls),
        n \in Optional("name", Names), a \in Attributes}

RECURSIVE ArraysOfLen(_, _)
ArraysOfLen(S, n) ==
    IF n = 0 THEN {<<>>}
    ELSE {Append(a, e) : a \in ArraysOfLen(S, n - 1), e \in S}

Manifests == UNION {ArraysOfLen(Entries, n) : n \in 0..MaxLen}

\* the entries whose one source is a url, whatever their trigger
UrlEntries == {e \in Entries : has(e, "url") /\ ~has(e, "name")}

\* the entries with a url, with both sources or with none, whatever their trigger
SourceEntries == {e \in Entries : has(e, "url") \/ ~has(e, "name")}

\* the names of local scripts: with and without the extension, and with parts of it
NameCharacters == {".", "j", "s"}
NameStrings == UNION {ArraysOfLen(NameCharacters, n) : n \in 0..MaxNameLen}

----------------------------------------------------------------------------
(* The state machine: the $route watcher and the dispatch it awaits. *)

\* where a run of the watcher stands
AwaitingManifest == "awaiting"  \* at await fetch(url), or at await response.json()
Returned == "returned"          \* forEach is over or has thrown, the watcher still waits
Done == "done"                  \* the watcher's promise is fulfilled
Failed == "failed"              \* the dispatch threw, the watcher's promise is rejected

\* what the fetch of the manifest gave
Pending == "pending"
NotFound == "not-found"         \* !response.ok
NotArray == "not-array"         \* !Array.isArray(customScripts)
IsArray == "array"
Unreachable == "unreachable"    \* the promise of fetch(url) was rejected
NotJson == "not-json"           \* the promise of response.json() was rejected

\* the errors of the promises the code awaits without a catch
FetchError == "TypeError"       \* fetch: the request failed
JsonError == "SyntaxError"      \* response.json(): the body is not JSON
ImportError == "import failed"  \* import(): the module was not loaded, or threw

\* the root component after data(), before any routing event
Created ==
    /\ initialRoutingEventHasOccurred = FALSE
    /\ calls = <<>>
    /\ head = <<>>
    /\ imports = {}
    /\ rejections = {}

\* the component while it routes: created() has run to its end without theme
\* settings, and no key has been pressed
Listening ==
    /\ lifecycle = "created"
    /\ enableThemeSettings = FALSE
    /\ createdAt = "finished"
    /\ fromKeyboard = FALSE
    /\ listeners = {"keydown", "pageshow"}
    /\ CSSCustomProperties = EmptyObject
    /\ rootStyle = EmptyObject

\* custom-scripts.json is static content, so its array is fixed in a behaviour; a
\* fetch may still find the file missing or not an array (a deploy in progress)
Init ==
    /\ customScripts \in Manifests
    /\ Created
    /\ Listening

\* a manifest of valid entries, each with a url
InitUrls ==
    /\ customScripts \in UNION {ArraysOfLen(UrlEntries, n) : n \in 0..MaxLen}
    /\ Created
    /\ Listening

\* a manifest of entries with a url, with both sources or with none
InitSources ==
    /\ customScripts \in UNION {ArraysOfLen(SourceEntries, n) : n \in 0..MaxLen}
    /\ Created
    /\ Listening

\* a manifest of one entry, with any attributes
InitAttributes ==
    /\ customScripts \in {<<e>> : e \in AttributedEntries}
    /\ Created
    /\ Listening

\* a manifest of one local script that runs on load and on navigate, with any name
InitNames ==
    /\ customScripts \in
            {<<[name |-> n, run |-> Run.onLoadAndNavigate]>> : n \in NameStrings}
    /\ Created
    /\ Listening

\* watch.$route up to the await fetch(url) of runCustomScripts
RouteChange ==
    /\ Len(calls) < MaxEvents
    /\ calls' = Append(calls,
            [kind |-> IF initialRoutingEventHasOccurred THEN Navigate ELSE Load,
             pc |-> AwaitingManifest, response |-> Pending, error |-> NoError])
    /\ UNCHANGED <<customScripts, initialRoutingEventHasOccurred, head, imports, rejections>>
    /\ UNCHANGED component

\* the watcher after the dispatch it awaits has returned: the load branch sets the flag
FlagAfter(c) == IF calls[c].kind = Load THEN TRUE ELSE initialRoutingEventHasOccurred

\* The dispatch reads and writes nothing between await fetch(url) and await
\* response.json(), so the two suspensions are one step here: the call resumes with
\* a response that is not ok, with a body that is not an array, or with the array,
\* or one of the two awaited promises is rejected.

\* ResponseNotOk without the early return: response.json() of the error page throws
ResponseNotOkNoReturn(c) ==
    /\ calls[c].pc = AwaitingManifest
    /\ calls' = [calls EXCEPT ![c].pc = Failed, ![c].response = NotFound,
                              ![c].error = JsonError]
    /\ UNCHANGED <<customScripts, initialRoutingEventHasOccurred, head, imports, rejections>>
    /\ UNCHANGED component

\* await fetch(url) resumes with a response that is not ok: the dispatch returns
ResponseNotOk(c) ==
    /\ calls[c].pc = AwaitingManifest
    /\ calls' = [calls EXCEPT ![c].pc = Done, ![c].response = NotFound]
    /\ initialRoutingEventHasOccurred' = FlagAfter(c)
    /\ UNCHANGED <<customScripts, head, imports, rejections>>
    /\ UNCHANGED component

\* BodyNotArray ending the dispatch silently, as for a missing file
BodyNotArraySilent(c) ==
    /\ calls[c].pc = AwaitingManifest
    /\ calls' = [calls EXCEPT ![c].pc = Done, ![c].response = NotArray]
    /\ initialRoutingEventHasOccurred' = FlagAfter(c)
    /\ UNCHANGED <<customScripts, head, imports, rejections>>
    /\ UNCHANGED component

\* BodyNotArray with the watcher setting the flag although the dispatch threw
BodyNotArraySetsFlag(c) ==
    /\ calls[c].pc = AwaitingManifest
    /\ calls' = [calls EXCEPT ![c].pc = Failed, ![c].response = NotArray,
                              ![c].error = FormatError]
    /\ initialRoutingEventHasOccurred' = FlagAfter(c)
    /\ UNCHANGED <<customScripts, head, imports, rejections>>
    /\ UNCHANGED component

\* await response.json() resumes with a body that is not an array: the dispatch throws
BodyNotArray(c) ==
    /\ calls[c].pc = AwaitingManifest
    /\ calls' = [calls EXCEPT ![c].pc = Failed, ![c].response = NotArray,
                              ![c].error = FormatError]
    /\ UNCHANGED <<customScripts, initialRoutingEventHasOccurred, head, imports, rejections>>
    /\ UNCHANGED component

\* await fetch(url) throws: the request failed, the dispatch and the watcher reject
FetchRejects(c) ==
    /\ calls[c].pc = AwaitingManifest
    /\ calls' = [calls EXCEPT ![c].pc = Failed, ![c].response = Unreachable,
                              ![c].error = FetchError]
    /\ UNCHANGED <<customScripts, initialRoutingEventHasOccurred, head, imports, rejections>>
    /\ UNCHANGED component

\* await response.json() throws: the body of an ok response is not JSON
BodyNotJson(c) ==
    /\ calls[c].pc = AwaitingManifest
    /\ calls' = [calls EXCEPT ![c].pc = Failed, ![c].response = NotJson,
                              ![c].error = JsonError]
    /\ UNCHANGED <<customScripts, initialRoutingEventHasOccurred, head, imports, rejections>>
    /\ UNCHANGED component

\* await response.json() resumes with the array: filter(predicate).forEach(executor)
\* runs to its end, or to the throw of addScriptElement, in this one task.  The
\* dispatch then returns or throws through the await of runCustomPageLoadScripts /
\* runCustomNavigateScripts and the await of the watcher, so the promise of the
\* watcher settles, and the flag is set, in a later step.  Meanwhile error holds
\* what forEach threw.
BodyArray(c) ==
    /\ calls[c].pc = AwaitingManifest
    /\ LET indices == filter(calls[c].kind, customScripts)
       IN  IF calls[c].kind = Load
           THEN LET r == forEachAddScriptElement(customScripts, indices, c, head)
                IN  /\ head' = r.head
                    /\ calls' = [calls EXCEPT
                            ![c].pc = Returned,
                            ![c].response = IsArray,
                            ![c].error = r.error]
                    /\ UNCHANGED <<initialRoutingEventHasOccurred, imports, rejections>>
           ELSE LET r == forEachImportScript(customScripts, indices, c, imports, rejections)
                IN  /\ imports' = r.imports
                    /\ rejections' = r.rejections
                    /\ calls' = [calls EXCEPT ![c].pc = Returned, ![c].response = IsArray]
                    /\ UNCHANGED <<initialRoutingEventHasOccurred, head>>
    /\ UNCHANGED customScripts
    /\ UNCHANGED component

\* the await of the watcher resumes: with the throw of forEach, which rejects the
\* promise of the watcher, or normally, and then the load branch sets the flag
WatcherResumes(c) ==
    /\ calls[c].pc = Returned
    /\ calls' = [calls EXCEPT ![c].pc = IF calls[c].error = NoError THEN Done ELSE Failed]
    /\ initialRoutingEventHasOccurred' =
            IF calls[c].error = NoError THEN FlagAfter(c)
            ELSE initialRoutingEventHasOccurred
    /\ UNCHANGED <<customScripts, head, imports, rejections>>
    /\ UNCHANGED component

\* a dynamic import settles: the module was loaded and run, or it failed to and
\* the promise of importScript, which forEach dropped, is rejected
ImportSettles(k) ==
    /\ ~k.settled
    /\ imports' = (imports \ {k}) \cup {[k EXCEPT !.settled = TRUE]}
    /\ \E fulfilled \in BOOLEAN :
        rejections' =
            IF fulfilled THEN rejections
            ELSE rejections \cup {[call |-> k.call, index |-> k.index,
                                     error |-> ImportError]}
    /\ UNCHANGED <<customScripts, initialRoutingEventHasOccurred, calls, head>>
    /\ UNCHANGED component

Next ==
    \/ RouteChange
    \/ \E c \in 1..Len(calls) : ResponseNotOk(c)
    \/ \E c \in 1..Len(calls) : FetchRejects(c)
    \/ \E c \in 1..Len(calls) : BodyNotJson(c)
    \/ \E c \in 1..Len(calls) : BodyNotArray(c)
    \/ \E c \in 1..Len(calls) : BodyArray(c)
    \/ \E c \in 1..Len(calls) : WatcherResumes(c)
    \/ \E k \in imports : ImportSettles(k)

Spec == Init /\ [][Next]_vars

\* the steps of a deployment that serves custom-scripts.json, as an array, to every
\* fetch
NextServed ==
    \/ RouteChange
    \/ \E c \in 1..Len(calls) : BodyArray(c)
    \/ \E c \in 1..Len(calls) : WatcherResumes(c)
    \/ \E k \in imports : ImportSettles(k)

SpecUrls == InitUrls /\ [][NextServed]_vars

SpecSources == InitSources /\ [][NextServed]_vars

SpecAttributes == InitAttributes /\ [][Next]_vars

SpecNames == InitNames /\ [][Next]_vars

----------------------------------------------------------------------------
(* The root component apart from routing: its window listeners and the custom
   properties it sets on document.body. *)

\* the custom properties a theme may define, and the values they may have; the
\* empty string is falsy
PropertyKeys == {"--a", "--b"}
PropertyValues == {"", "x", "y"}
PropertyMaps ==
    UNION {[keys -> PropertyValues] : keys \in SUBSET PropertyKeys}

\* Boolean(value) of a string
Truthy(value) == value # ""

\* attachStylesToRoot: setProperty for every entry with a truthy value
attachStylesToRoot(style, properties) ==
    LET set == {key \in DOMAIN properties : Truthy(properties[key])}
    IN  [key \in DOMAIN style \cup set |->
            IF key \in set THEN properties[key] ELSE style[key]]

\* detachStylesFromRoot: removeProperty for every key of the map it is given
detachStylesFromRoot(style, properties) ==
    [key \in DOMAIN style \ DOMAIN properties |-> style[key]]

\* the handler of the CSSCustomProperties watcher: it takes the new value of the
\* property, detaches it and attaches it
handler(style, properties) ==
    attachStylesToRoot(detachStylesFromRoot(style, properties), properties)

\* the component after data() and the immediate run of the watcher, before created
InitComponent ==
    /\ customScripts = <<>>
    /\ Created
    /\ lifecycle = "initialized"
    /\ enableThemeSettings \in BOOLEAN
    /\ createdAt = "not started"
    /\ fromKeyboard = FALSE
    /\ listeners = {}
    /\ CSSCustomProperties \in PropertyMaps
    /\ rootStyle = handler(EmptyObject, CSSCustomProperties)

\* created up to its await: it registers keydown; with theme settings enabled it
\* stops at await fetchThemeSettings(), otherwise it runs to its end and registers
\* pageshow and the hook that removes it
created ==
    /\ lifecycle = "initialized"
    /\ lifecycle' = "created"
    /\ IF enableThemeSettings
       THEN /\ createdAt' = "awaiting theme"
            /\ listeners' = listeners \cup {"keydown"}
       ELSE /\ createdAt' = "finished"
            /\ listeners' = listeners \cup {"keydown", "pageshow"}
    /\ UNCHANGED <<enableThemeSettings, fromKeyboard, CSSCustomProperties, rootStyle>>

\* await fetchThemeSettings() resumes, on a component that may have been destroyed:
\* created registers pageshow and the hook that removes it
createdResumes ==
    /\ createdAt = "awaiting theme"
    /\ createdAt' = "finished"
    /\ listeners' = listeners \cup {"pageshow"}
    /\ UNCHANGED <<lifecycle, enableThemeSettings, fromKeyboard, CSSCustomProperties,
                   rootStyle>>

\* a keydown event reaches the onKeyDown listener
onKeyDown ==
    /\ "keydown" \in listeners
    /\ fromKeyboard' = TRUE
    /\ listeners' = (listeners \cup {"mousedown"}) \ {"keydown"}
    /\ UNCHANGED <<lifecycle, enableThemeSettings, createdAt, CSSCustomProperties,
                   rootStyle>>

\* a mousedown event reaches the onMouseDown listener
onMouseDown ==
    /\ "mousedown" \in listeners
    /\ fromKeyboard' = FALSE
    /\ listeners' = (listeners \cup {"keydown"}) \ {"mousedown"}
    /\ UNCHANGED <<lifecycle, enableThemeSettings, createdAt, CSSCustomProperties,
                   rootStyle>>

\* the computed property has a new value: the watcher runs its handler
watchCSSCustomProperties ==
    /\ lifecycle = "created"
    /\ \E properties \in PropertyMaps :
        /\ CSSCustomProperties' = properties
        /\ rootStyle' = handler(rootStyle, properties)
    /\ UNCHANGED <<lifecycle, enableThemeSettings, createdAt, fromKeyboard, listeners>>

\* beforeDestroy removing the keydown listener whatever fromKeyboard is
beforeDestroyOfKeydown ==
    /\ lifecycle = "created"
    /\ lifecycle' = "destroyed"
    /\ listeners' = (listeners \ {"keydown"})
            \ (IF createdAt = "finished" THEN {"pageshow"} ELSE {})
    /\ rootStyle' = detachStylesFromRoot(rootStyle, CSSCustomProperties)
    /\ UNCHANGED <<enableThemeSettings, createdAt, fromKeyboard, CSSCustomProperties>>

\* beforeDestroy: remove the one listener fromKeyboard says is registered, detach
\* the styles of the current map; then the hook created registered, if created
\* has got that far, removes pageshow
beforeDestroy ==
    /\ lifecycle = "created"
    /\ lifecycle' = "destroyed"
    /\ listeners' = (listeners \ {IF fromKeyboard THEN "mousedown" ELSE "keydown"})
            \ (IF createdAt = "finished" THEN {"pageshow"} ELSE {})
    /\ rootStyle' = detachStylesFromRoot(rootStyle, CSSCustomProperties)
    /\ UNCHANGED <<enableThemeSettings, createdAt, fromKeyboard, CSSCustomProperties>>

\* the routing variables, which the steps of this section leave alone
routing == <<customScripts, initialRoutingEventHasOccurred, calls, head, imports, rejections>>

NextComponent ==
    \/ created /\ UNCHANGED routing
    \/ createdResumes /\ UNCHANGED routing
    \/ onKeyDown /\ UNCHANGED routing
    \/ onMouseDown /\ UNCHANGED routing
    \/ watchCSSCustomProperties /\ UNCHANGED routing
    \/ beforeDestroy /\ UNCHANGED routing

SpecComponent == InitComponent /\ [][NextComponent]_vars

----------------------------------------------------------------------------
(* What the properties below speak of. *)

CallIds == 1..Len(calls)

\* the watcher of call c awaits its dispatch, which has neither completed nor thrown
InProgress(c) == calls[c].pc \in {AwaitingManifest, Returned}

\* the script elements call c appended, in document order
AppendedBy(c) == SelectSeq(head, LAMBDA el : el.call = c)

\* the dynamic imports call c started
ImportsOf(c) == {m \in imports : m.call = c}

\* entry i was executed by call c: appended as a script element, or imported
Executed(c, i) ==
    \/ \E k \in 1..Len(head) : head[k].call = c /\ head[k].index = i
    \/ \E m \in imports : m.call = c /\ m.index = i

ExecutedNothing(c) == \A i \in 1..Len(customScripts) : ~Executed(c, i)

\* entry i passes the trigger filter of call c
Matches(c, i) ==
    IF calls[c].kind = Load THEN shouldRunOnPageLoad(customScripts[i])
    ELSE shouldRunOnNavigate(customScripts[i])

\* an entry with both url and name, or with neither
BadSource(entry) == has(entry, "url") = has(entry, "name")

\* the location an entry with one source names
SourceOf(entry) ==
    IF has(entry, "url") THEN entry.url ELSE urlGivenScriptName(entry.name)

----------------------------------------------------------------------------
(* C1 .. C10 *)

\* C1 (as claimed): of two dynamic imports one navigate-time dispatch starts, the
\* one of the later entry is not started before the one of the earlier entry has
\* completed.
C1_ImportsOneAtATime ==
    \A a \in imports : \A b \in imports :
        (a.call = b.call /\ a.index < b.index) => a.settled

\* C2 (as claimed): a dispatch that read an array with a matching entry that has
\* both or neither of url and name fails with that source error, on the static
\* and on the dynamic path alike, once the await of the watcher has resumed.
C2_SourceErrorSurfaced ==
    \A c \in CallIds :
        (/\ calls[c].response = IsArray
         /\ calls[c].pc # Returned
         /\ \E i \in 1..Len(customScripts) : Matches(c, i) /\ BadSource(customScripts[i]))
        => (calls[c].pc = Failed /\ calls[c].error \in {BothError, NeitherError})

\* C3 (as claimed): the watcher starts the load-time dispatch for the first routing
\* event and the navigate-time dispatch for every later one.
C3_LoadOnceThenNavigate ==
    \A c \in CallIds : calls[c].kind = IF c = 1 THEN Load ELSE Navigate

\* C4 (as claimed): no navigate-time dispatch is in progress while a load-time
\* dispatch is in progress.
C4_NeverConcurrent ==
    ~ \E l \in CallIds : \E n \in CallIds :
        /\ calls[l].kind = Load /\ InProgress(l)
        /\ calls[n].kind = Navigate /\ InProgress(n)

\* every entry of the manifest has exactly one of url and name
ValidManifest == \A i \in 1..Len(customScripts) : ~BadSource(customScripts[i])

\* C5: on an array of valid entries a load-time dispatch appends one script
\* element per entry that passes shouldRunOnPageLoad, in manifest order and with
\* the entry's source, and imports nothing; a navigate-time dispatch starts a
\* dynamic import for exactly the entries that pass shouldRunOnNavigate, with the
\* entry's source, and appends nothing.  Neither is refused an entry: the only
\* promise that may be rejected is that of an import that failed once started.
C5_ExecutesTheMatchingEntries ==
    ValidManifest =>
        \A c \in CallIds :
            IF calls[c].response # IsArray THEN ExecutedNothing(c)
            ELSE /\ calls[c].pc \in {Returned, Done}
                 /\ \A r \in rejections : r.call = c => r.error = ImportError
                 /\ IF calls[c].kind = Load
                    THEN LET els == AppendedBy(c)
                         IN  /\ ImportsOf(c) = {}
                             /\ {els[k].index : k \in 1..Len(els)} =
                                    {i \in 1..Len(customScripts) :
                                        shouldRunOnPageLoad(customScripts[i])}
                             /\ \A k \in 1..Len(els) : \A l \in 1..Len(els) :
                                    k < l => els[k].index < els[l].index
                             /\ \A k \in 1..Len(els) :
                                    els[k].element.src = SourceOf(customScripts[els[k].index])
                    ELSE /\ AppendedBy(c) = <<>>
                         /\ {m.index : m \in ImportsOf(c)} =
                                {i \in 1..Len(customScripts) :
                                    shouldRunOnNavigate(customScripts[i])}
                         /\ Cardinality(ImportsOf(c)) =
                                Cardinality({m.index : m \in ImportsOf(c)})
                         /\ \A m \in ImportsOf(c) :
                                m.src = SourceOf(customScripts[m.index])

\* C5 happens: on a valid manifest whose first entry does not run on navigate, a
\* load-time dispatch has appended two elements and a navigate-time dispatch has
\* started an import.
C5_Witness ==
    /\ ValidManifest
    /\ Len(customScripts) = 2
    /\ ~shouldRunOnNavigate(customScripts[1])
    /\ \E c \in CallIds :
        calls[c].kind = Load /\ calls[c].pc = Done /\ Len(AppendedBy(c)) = 2
    /\ \E c \in CallIds :
        calls[c].kind = Navigate /\ calls[c].pc = Done /\ ImportsOf(c) # {}

\* C6 (as claimed): a navigate-time dispatch has returned only when every dynamic
\* import it started has completed.
C6_NavigateAwaitsItsImports ==
    \A c \in CallIds :
        (calls[c].kind = Navigate /\ calls[c].pc = Done)
        => \A m \in ImportsOf(c) : m.settled

\* C7 (as claimed): in one dispatch, no matching entry that comes after a matching
\* entry with both or neither of url and name is executed.
C7_BadEntryAbortsTheRest ==
    \A c \in CallIds : \A i \in 1..Len(customScripts) : \A j \in 1..Len(customScripts) :
        (i < j /\ Matches(c, i) /\ BadSource(customScripts[i])) => ~Executed(c, j)

\* C8 (as claimed): the script element appended for an entry with integrity has
\* crossOrigin set to anonymous, whatever the entry's source.
C8_IntegrityImpliesAnonymous ==
    \A k \in 1..Len(head) :
        has(customScripts[head[k].index], "integrity")
        => (has(head[k].element, "crossOrigin")
            /\ head[k].element.crossOrigin = "anonymous")

\* C9: a dispatch whose fetch reports not found returns without error, having
\* appended no script element and started no dynamic import.
C9_NotFoundIsSilent ==
    \A c \in CallIds :
        calls[c].response = NotFound
        => /\ calls[c].pc = Done
           /\ calls[c].error = NoError
           /\ ExecutedNothing(c)
           /\ \A r \in rejections : r.call # c

\* C9 happens: a load-time and a navigate-time dispatch both got not found, on a
\* manifest with an entry for each of them.
C9_Witness ==
    /\ \E i \in 1..Len(customScripts) : shouldRunOnPageLoad(customScripts[i])
    /\ \E i \in 1..Len(customScripts) : shouldRunOnNavigate(customScripts[i])
    /\ \E c \in CallIds : calls[c].kind = Load /\ calls[c].response = NotFound
    /\ \E c \in CallIds : calls[c].kind = Navigate /\ calls[c].response = NotFound

\* C10: a dispatch whose manifest parses to something that is not an array fails
\* with the format error, having appended no script element and started no
\* dynamic import.
C10_NotArrayFails ==
    \A c \in CallIds :
        calls[c].response = NotArray
        => /\ calls[c].pc = Failed
           /\ calls[c].error = FormatError
           /\ ExecutedNothing(c)
           /\ \A r \in rejections : r.call # c

\* C10 happens: a load-time and a navigate-time dispatch both read a body that is
\* not an array.
C10_Witness ==
    /\ \E c \in CallIds : calls[c].kind = Load /\ calls[c].response = NotArray
    /\ \E c \in CallIds : calls[c].kind = Navigate /\ calls[c].response = NotArray

----------------------------------------------------------------------------
(* C11 .. C18 *)

\* run is absent, on-load or on-load-and-navigate
RunsOnLoadByTable(entry) ==
    \/ "run" \notin DOMAIN entry
    \/ entry.run \in {"on-load", "on-load-and-navigate"}

\* run is on-navigate or on-load-and-navigate
RunsOnNavigateByTable(entry) ==
    /\ "run" \in DOMAIN entry
    /\ entry.run \in {"on-navigate", "on-load-and-navigate"}

\* a load-time dispatch threw before it came to entry i
ThrewBefore(i) ==
    \E j \in 1..(i - 1) :
        RunsOnLoadByTable(customScripts[j]) /\ BadSource(customScripts[j])

\* the promise of importScript for entry i in call c was rejected
Rejected(c, i) == \E r \in rejections : r.call = c /\ r.index = i

\* C11: shouldRunOnPageLoad holds exactly of the entries whose run is absent,
\* on-load or on-load-and-navigate, and shouldRunOnNavigate exactly of those whose
\* run is on-navigate or on-load-and-navigate; an entry with an absent or valid run
\* passes at least one of them, and both exactly when run is on-load-and-navigate;
\* and a dispatch that read the array acts on an entry exactly when the one of its
\* kind holds: it appends or imports an entry with one source, and for an entry
\* with both or neither it appends and imports nothing, the load-time dispatch
\* never completing and the navigate-time dispatch rejecting the entry's promise.
C11_PredicatesFollowRun ==
    \A i \in 1..Len(customScripts) :
        LET entry == customScripts[i]
        IN  /\ shouldRunOnPageLoad(entry) = RunsOnLoadByTable(entry)
            /\ shouldRunOnNavigate(entry) = RunsOnNavigateByTable(entry)
            /\ ("run" \notin DOMAIN entry \/ entry.run # OtherRun)
                    => (shouldRunOnPageLoad(entry) \/ shouldRunOnNavigate(entry))
            /\ (shouldRunOnPageLoad(entry) /\ shouldRunOnNavigate(entry))
                    = ("run" \in DOMAIN entry /\ entry.run = "on-load-and-navigate")
            /\ \A c \in CallIds :
                    calls[c].response = IsArray =>
                        IF calls[c].kind = Load
                        THEN ThrewBefore(i)
                             \/ IF BadSource(entry)
                                THEN /\ ~Executed(c, i)
                                     /\ RunsOnLoadByTable(entry) => calls[c].pc # Done
                                ELSE Executed(c, i) = RunsOnLoadByTable(entry)
                        ELSE IF BadSource(entry)
                             THEN /\ ~Executed(c, i)
                                  /\ Rejected(c, i) = RunsOnNavigateByTable(entry)
                             ELSE Executed(c, i) = RunsOnNavigateByTable(entry)

\* C11 happens: a navigate-time dispatch has read an array whose entry has no run,
\* after a load-time dispatch appended that entry.
C11_Witness ==
    /\ ~has(customScripts[1], "run")
    /\ \E c \in CallIds : calls[c].kind = Load /\ Executed(c, 1)
    /\ \E c \in CallIds : calls[c].kind = Navigate /\ calls[c].response = IsArray

\* C12: every script element appended has async assigned: to true when the entry's
\* async is true, and to false when the entry has no async or a false one.
C12_AsyncAlwaysSet ==
    \A k \in 1..Len(head) :
        LET entry == customScripts[head[k].index]
            element == head[k].element
        IN  /\ has(element, "async")
            /\ element.async = IF has(entry, "async") THEN entry.async ELSE FALSE

\* C12 happens: an element was appended for an entry that has no async.
C12_Witness ==
    \E k \in 1..Len(head) :
        /\ ~has(customScripts[head[k].index], "async")
        /\ has(head[k].element, "src")

\* the string ends in .js
EndsWithJs(s) == Len(s) >= 3 /\ SubSeq(s, Len(s) - 2, Len(s)) = <<".", "j", "s">>

\* what every resolved location of a local script starts with
ScriptsDirectory == BaseUrl \o <<"/">> \o CustomScriptsSegment \o <<"/">>

\* the locations the dispatch resolved for entry i: of its elements and its imports
ResolvedFor(i) ==
    {head[k].element.src : k \in {x \in 1..Len(head) : head[x].index = i}}
        \cup {m.src : m \in {x \in imports : x.index = i}}

\* C13: the location resolved for a local script is the scripts directory followed
\* by a file name that ends in .js, that is the name itself when the name ends in
\* .js and the name followed by .js otherwise, and that resolves to the same
\* location when it is given as the name.
C13_ExtensionAddedOnce ==
    \A i \in 1..Len(customScripts) : \A src \in ResolvedFor(i) :
        LET name == customScripts[i].name
            fileName == SubSeq(src, Len(ScriptsDirectory) + 1, Len(src))
        IN  /\ src = ScriptsDirectory \o fileName
            /\ EndsWithJs(fileName)
            /\ fileName = IF EndsWithJs(name) THEN name ELSE name \o <<".", "j", "s">>
            /\ urlGivenScriptName(fileName) = src

\* C13 happens: a script whose name already ends in .js was appended as an element
\* and imported.
C13_Witness ==
    /\ EndsWithJs(customScripts[1].name)
    /\ Len(customScripts[1].name) > 3
    /\ \E k \in 1..Len(head) : head[k].index = 1
    /\ \E m \in imports : m.index = 1

\* a load-time dispatch has completed without error
SomeLoadCompleted == \E c \in CallIds : calls[c].kind = Load /\ calls[c].pc = Done

\* the flag in a step: it is never reset, a dispatch that fails leaves it as it was,
\* and a routing event starts the load-time dispatch exactly when it is false
FlagStep ==
    /\ initialRoutingEventHasOccurred => initialRoutingEventHasOccurred'
    /\ \A c \in CallIds :
            (calls[c].pc # Failed /\ calls'[c].pc = Failed)
                => initialRoutingEventHasOccurred' = initialRoutingEventHasOccurred
    /\ Len(calls') > Len(calls)
            => calls'[Len(calls')].kind =
                    IF initialRoutingEventHasOccurred THEN Navigate ELSE Load

\* C14: the flag is true exactly when some load-time dispatch has completed without
\* error (so it starts false), it never returns to false, a failing dispatch leaves
\* it unchanged, and a routing event that finds it false runs the load-time
\* dispatch again, never the navigate-time dispatch.
C14_FlagFollowsCompletedLoad ==
    /\ [](initialRoutingEventHasOccurred = SomeLoadCompleted)
    /\ [][FlagStep]_vars

\* C14 happens: a load-time dispatch failed, the next routing event ran the
\* load-time dispatch again, it completed, and a later event ran navigate.
C14_Witness ==
    /\ Len(calls) >= 3
    /\ calls[1].kind = Load /\ calls[1].pc = Failed
    /\ calls[2].kind = Load /\ calls[2].pc = Done
    /\ calls[3].kind = Navigate
    /\ initialRoutingEventHasOccurred

\* the run of entry i is absent or on-load
OnLoadOnly(i) ==
    "run" \notin DOMAIN customScripts[i] \/ customScripts[i].run = "on-load"

\* the run of entry i is on-navigate
OnNavigateOnly(i) ==
    "run" \in DOMAIN customScripts[i] /\ customScripts[i].run = "on-navigate"

\* C15: whatever routing events have happened and however they interleaved, no
\* dynamic import was started (or rejected before it started) for an entry whose
\* run is absent or on-load, and no script element was appended for an entry whose
\* run is on-navigate.
C15_TriggerDecidesTheExecutor ==
    /\ \A m \in imports : ~OnLoadOnly(m.index)
    /\ \A r \in rejections : ~OnLoadOnly(r.index)
    /\ \A k \in 1..Len(head) : ~OnNavigateOnly(head[k].index)

\* C15 happens: the manifest has an entry that runs on load only and one that runs
\* on navigate only, a load-time dispatch appended the first and a navigate-time
\* dispatch imported the second.
C15_Witness ==
    \E i \in 1..Len(customScripts) : \E j \in 1..Len(customScripts) :
        /\ OnLoadOnly(i) /\ OnNavigateOnly(j)
        /\ \E k \in 1..Len(head) : head[k].index = i
        /\ \E m \in imports : m.index = j
        /\ \E c \in CallIds : calls[c].kind = Navigate /\ calls[c].pc = Done

\* the matching entries of a load-time dispatch that have both or neither source
BadMatching ==
    {i \in 1..Len(customScripts) :
        /\ "run" \in DOMAIN customScripts[i]
                => customScripts[i].run \in {"on-load", "on-load-and-navigate"}
        /\ ("url" \in DOMAIN customScripts[i]) = ("name" \in DOMAIN customScripts[i])}

\* the matching entries of a load-time dispatch that come before entry b
MatchingBefore(b) ==
    {i \in 1..(b - 1) :
        "run" \in DOMAIN customScripts[i]
            => customScripts[i].run \in {"on-load", "on-load-and-navigate"}}

\* C16: a load-time dispatch that read the array and met a matching entry with both
\* or neither of url and name never completes, has appended no element for that
\* entry, and the elements it appended for the matching entries before it are in
\* the document: while the watcher still waits, when its promise is rejected, and
\* in every later state.
C16_NoRollback ==
    \A c \in CallIds :
        (calls[c].kind = Load /\ calls[c].response = IsArray /\ BadMatching # {})
        => LET b == CHOOSE i \in BadMatching : \A j \in BadMatching : i <= j
               els == AppendedBy(c)
           IN  /\ calls[c].pc \in {Returned, Failed}
               /\ \A k \in 1..Len(els) : els[k].index # b
               /\ {els[k].index : k \in 1..Len(els)} = MatchingBefore(b)
               /\ Len(els) = Cardinality(MatchingBefore(b))

\* C16 happens: a load-time dispatch appended the element of the first entry, failed
\* on the second, and another dispatch has run since.
C16_Witness ==
    /\ Len(customScripts) = 2
    /\ BadMatching = {2}
    /\ Len(calls) >= 2
    /\ calls[1].kind = Load /\ calls[1].pc = Failed /\ calls[1].response = IsArray
    /\ Len(AppendedBy(1)) = 1
    /\ calls[2].pc # AwaitingManifest

\* C17: while the component is created and not destroyed, exactly one of its two
\* window listeners is registered, mousedown when fromKeyboard is true and keydown
\* when it is false; once it is destroyed neither is registered.
C17_OneListenerAtATime ==
    LET registered == listeners \cap {"keydown", "mousedown"}
    IN  /\ lifecycle = "created"
            => registered = IF fromKeyboard THEN {"mousedown"} ELSE {"keydown"}
        /\ lifecycle = "destroyed" => registered = {}

\* C17 happens: the component was destroyed after a keydown event had switched it
\* to the mousedown listener.
C17_Witness == lifecycle = "destroyed" /\ fromKeyboard

\* the entries of the current map that have a truthy value
TruthyEntries ==
    LET set == {key \in DOMAIN CSSCustomProperties : CSSCustomProperties[key] # ""}
    IN  [key \in set |-> CSSCustomProperties[key]]

\* C18 (as claimed): after every run of the watcher, the custom properties set on
\* document.body are exactly the entries of the current map with a truthy value.
C18_StyleIsTheCurrentMap ==
    lifecycle # "destroyed" => rootStyle = TruthyEntries

====
